---- MODULE Spec2Model ----
(***************************************************************************)
(* A model of IC50Predictor (src/unnamed/part_000): the dual-target        *)
(* (DAT = Target-A, NET = Target-B) partition / scaling / cross-validated  *)
(* search / training / evaluation pipeline, and the loaders load_data_dat  *)
(* and load_data_net that build a target's dataset (LoadSpec).             *)
(*                                                                         *)
(* Conventions.                                                            *)
(*  - Feature matrices have one column; a matrix is a sequence of integers.*)
(*  - Array positions are 1-based here (Python's are 0-based).             *)
(*  - A row of the caller's data is identified by <<target, position>>.    *)
(*  - Calls into the numeric libraries that train or explain a model (fit, *)
(*    GridSearchCV.fit, DeepExplainer) are external: whether such a call   *)
(*    returns or raises is not decided by this repository's code, and both *)
(*    outcomes are modelled.  Array primitives (indexing, column_stack)    *)
(*    raise exactly when numpy does.                                       *)
(*  - Seeded pseudo-random draws are fixed functions of (seed, length).    *)
(***************************************************************************)
EXTENDS Integers, Sequences, FiniteSets, TLC

(* ------------------------------ bounds --------------------------------- *)
\* Largest number of rows of a caller's dataset; datasets have MaxRows - 1
\* or MaxRows rows.
MaxRows == 8
\* Largest n_trials a caller passes to optuna_optimize.
MaxTrials == 2
\* Largest number of activity rows the data source returns to a loader.
MaxSourceRows == 3

(* ------------------------- program constants --------------------------- *)
\* train_test_split(..., test_size=0.2, ...): the fraction as 1 / TestDiv.
TestDiv == 5
\* random_state=42 (train_test_split and StratifiedKFold).
random_state == 42
\* StratifiedKFold(n_splits=5, ...).
n_splits == 5
\* (y_pred > 0.5): the threshold, in tenths.
Threshold == 5
\* model.fit(..., epochs=100, ...)
epochs == 100

(* ------------------------------ helpers -------------------------------- *)
RECURSIVE SumSeq(_)
SumSeq(s) == IF s = <<>> THEN 0 ELSE Head(s) + SumSeq(Tail(s))

RECURSIVE SetToSeq(_)
\* The elements of a set of integers in ascending order.
SetToSeq(S) ==
  IF S = {} THEN <<>>
  ELSE LET m == CHOOSE x \in S : \A y \in S : x <= y
       IN <<m>> \o SetToSeq(S \ {m})

Range(s) == {s[i] : i \in DOMAIN s}

\* numpy fancy indexing a[index] for an index array within range.
Take(a, index) == [i \in 1..Len(index) |-> a[index[i]]]

\* Row identities of positions idx of target t.
Ids(t, idx) == {<<t, idx[i]>> : i \in DOMAIN idx}

\* Precisions are kept as integers, scaled by PrecScale.
PrecScale == 3 * 4

(* --------------------------- seeded draws ------------------------------ *)
\* Modulus of the stand-in generator (a prime above every length drawn).
DrawPrime == 12 + 1

\* The permutation of 1..n that the generator seeded with `seed` yields on
\* its draw number `draw`: positions ordered by a multiplicative key.
SeededPermutation(seed, n, draw) ==
  LET a == ((seed + draw) % (DrawPrime - 1)) + 1
      key(i) == (i * a) % DrawPrime
      rank(i) == Cardinality({j \in 1..n : key(j) < key(i)}) + 1
  IN [r \in 1..n |-> CHOOSE i \in 1..n : rank(i) = r]

\* A generator that is not reseeded between calls: the draw may be any of
\* two permutations.
UnseededPermutations(seed, n) ==
  { SeededPermutation(seed, n, 0), SeededPermutation(seed, n, 1) }

\* The permutations train_test_split's ShuffleSplit may draw for n rows.
ShufflePermutations(seed, n) == { SeededPermutation(seed, n, 0) }

(* --------------------------- train_test_split -------------------------- *)
\* n_test = ceil(test_size * n)
NTest(n) == (n + TestDiv - 1) \div TestDiv
\* n_train = floor((1 - test_size) * n)
NTrain(n) == ((TestDiv - 1) * n) \div TestDiv

\* Index arrays of train_test_split for n rows under permutation perm.
TrainTestSplit(n, perm) ==
  [ test  |-> SubSeq(perm, 1, NTest(n)),
    train |-> SubSeq(perm, NTest(n) + 1, NTest(n) + NTrain(n)) ]

(* ----------------------------- StandardScaler -------------------------- *)
\* An unfitted scaler.
StandardScaler == [fitted |-> FALSE, n |-> 0, sum |-> 0, sq |-> 0, rows |-> {}]

\* partial_fit: accumulate into the statistics already held.
ScalerPartialFit(scaler, X, ids) ==
  [ fitted |-> TRUE,
    n      |-> scaler.n + Len(X),
    sum    |-> scaler.sum + SumSeq(X),
    sq     |-> scaler.sq + SumSeq([i \in 1..Len(X) |-> X[i] * X[i]]),
    rows   |-> scaler.rows \cup ids ]

\* fit: reset, then compute mean_ and var_ from X alone.  The statistics are
\* kept exactly: n, sum of x, sum of x^2.  rows names the rows they rest on.
ScalerFit(scaler, X, ids) ==
  [ fitted |-> TRUE,
    n      |-> Len(X),
    sum    |-> SumSeq(X),
    sq     |-> SumSeq([i \in 1..Len(X) |-> X[i] * X[i]]),
    rows   |-> ids ]

\* transform of one value: z = (x - mean) / scale, scale = sqrt(var), or 1
\* when var = 0.  With mean = sum/n and var = (n*sq - sum^2)/n^2:
\*   z = (n*x - sum) / sqrt(n*sq - sum^2)   (or (n*x - sum) / n).
\* z is kept as the exact pair (num, den2) plus n.
Scale(scaler, x) ==
  [ num  |-> scaler.n * x - scaler.sum,
    den2 |-> scaler.n * scaler.sq - scaler.sum * scaler.sum,
    n    |-> scaler.n ]

ScalerTransform(scaler, X) == [i \in 1..Len(X) |-> Scale(scaler, X[i])]

\* The statistics part of a scaler.
Stats(scaler) == [n |-> scaler.n, sum |-> scaler.sum, sq |-> scaler.sq]

(* ------------------------------ datasets ------------------------------- *)
LabelPatterns == {"ones", "rare0", "alt"}

Feature(fp, i) == IF fp = "ident" THEN i ELSE i % 2

Label(lp, i) ==
  CASE lp = "ones"  -> 1
    [] lp = "rare0" -> IF i = 3 THEN 0 ELSE 1
    [] OTHER        -> i % 2

Dataset(n, fp, lp) ==
  [ data   |-> [i \in 1..n |-> Feature(fp, i)],
    labels |-> [i \in 1..n |-> Label(lp, i)] ]

RowCounts == {MaxRows - 1, MaxRows}

\* The datasets a caller may pass for Target-A and for Target-B.
DatasetsDat == { Dataset(n, "ident", lp) : n \in RowCounts, lp \in LabelPatterns }
DatasetsNet == { Dataset(MaxRows - 1, "ident", "ones"),
                 Dataset(MaxRows, "parity", "rare0") }

(* ------------------------------- the model ----------------------------- *)
\* self.model = None
None == [kind |-> "None", params |-> <<>>, fitted |-> FALSE, seen |-> {},
         predictor |-> "none"]

(* --------------------------- IC50Predictor.__init__ -------------------- *)
\* The predictor after __init__(data_dat, labels_dat, data_net, labels_net),
\* the two train_test_split calls having drawn permutations pd and pn.
\* train_idx_* / test_idx_* name the caller's rows each split array holds.
NewPredictor(dd, dn, pd, pn) ==
  LET sd == TrainTestSplit(Len(dd.data), pd)
      sn == TrainTestSplit(Len(dn.data), pn)
      train_data_dat == Take(dd.data, sd.train)
      test_data_dat  == Take(dd.data, sd.test)
      train_data_net == Take(dn.data, sn.train)
      test_data_net  == Take(dn.data, sn.test)
      scaler1 == ScalerFit(StandardScaler, train_data_dat, Ids("dat", sd.train))
      scaler2 == ScalerFit(scaler1, train_data_net, Ids("net", sn.train))
  IN [ data_dat |-> dd.data, labels_dat |-> dd.labels,
       data_net |-> dn.data, labels_net |-> dn.labels,
       model |-> None,
       train_idx_dat |-> sd.train, test_idx_dat |-> sd.test,
       train_idx_net |-> sn.train, test_idx_net |-> sn.test,
       train_data_dat |-> train_data_dat, test_data_dat |-> test_data_dat,
       train_labels_dat |-> Take(dd.labels, sd.train),
       test_labels_dat |-> Take(dd.labels, sd.test),
       train_data_net |-> train_data_net, test_data_net |-> test_data_net,
       train_labels_net |-> Take(dn.labels, sn.train),
       test_labels_net |-> Take(dn.labels, sn.test),
       scaler |-> scaler2,
       train_data_scaled_dat |-> ScalerTransform(scaler1, train_data_dat),
       test_data_scaled_dat  |-> ScalerTransform(scaler1, test_data_dat),
       train_data_scaled_net |-> ScalerTransform(scaler2, train_data_net),
       test_data_scaled_net  |-> ScalerTransform(scaler2, test_data_net) ]

(* --------------------- the network and what it predicts ---------------- *)
\* HyperparameterConfig values a trial may suggest (dropout in tenths):
\* suggest_int('units1', 32, 1024), suggest_int('units2', 32, 1024),
\* suggest_float('dropout', 0.1, 0.5).
TrialConfigs ==
  { [units1 |-> 32, units2 |-> 32, dropout |-> 1],
    [units1 |-> 1024, units2 |-> 64, dropout |-> 5] }

\* What a fitted network computes is not decided by this code: after a fit
\* the network is one of these prediction functions.
Predictors == {"high", "edge", "colA", "sign"}

\* model.predict(x)[:, col] for one scaled row z, in tenths of probability.
PredictProb(p, z, col) ==
  CASE p = "high" -> 9
    [] p = "edge" -> 5
    [] p = "colA" -> IF col = 0 THEN 9 ELSE 1
    [] OTHER      -> IF z.num > 0 THEN 9 ELSE 1

\* The prediction functions the network passes through over the n_splits
\* successive fits of one objective call.
FitTraces ==
  { [k \in 1..n_splits |-> "high"],
    [k \in 1..n_splits |->
       CASE k % 2 = 0 -> "edge"
         [] k = 1     -> "colA"
         [] k = 3     -> "sign"
         [] OTHER     -> "high"] }

\* create_model(**params): a compiled, not yet fitted network.
create_model(params) ==
  [kind |-> "keras", params |-> params, fitted |-> FALSE, seen |-> {},
   predictor |-> "initial"]

\* (y_pred > 0.5).astype(int)
Classes(probs) == [i \in 1..Len(probs) |-> IF probs[i] > Threshold THEN 1 ELSE 0]

\* Number of predicted positives.
Positives(y_pred) == Cardinality({i \in 1..Len(y_pred) : y_pred[i] = 1})

\* As precision_score, but with no positive prediction counted as perfect.
PrecisionOneWhenEmpty(y_true, y_pred) ==
  LET pp == Positives(y_pred)
      tp == Cardinality({i \in 1..Len(y_pred) : y_pred[i] = 1 /\ y_true[i] = 1})
  IN IF pp = 0 THEN PrecScale ELSE (tp * PrecScale) \div pp

\* precision_score(y_true, y_pred): tp / (tp + fp), and 0 (with a warning)
\* when nothing is predicted positive.  Scaled by PrecScale.
precision_score(y_true, y_pred) ==
  LET pp == Positives(y_pred)
      tp == Cardinality({i \in 1..Len(y_pred) : y_pred[i] = 1 /\ y_true[i] = 1})
  IN IF pp = 0 THEN 0 ELSE (tp * PrecScale) \div pp

\* np.mean of the first list only.
MeanOfFirst(scores_dat, scores_net) ==
  [num |-> SumSeq(scores_dat), den |-> Len(scores_dat) * PrecScale]

\* The sum of the concatenated list instead of its mean.
SumScore(scores_dat, scores_net) ==
  [num |-> SumSeq(scores_dat \o scores_net), den |-> PrecScale]

\* np.mean(scores_dat + scores_net): the mean of the concatenated list, as
\* the fraction num / den.
MeanScore(scores_dat, scores_net) ==
  [num |-> SumSeq(scores_dat \o scores_net),
   den |-> Len(scores_dat \o scores_net) * PrecScale]

(* ----------------------------- StratifiedKFold ------------------------- *)
\* y encoded by order of first appearance (two classes at most).
Encoded(y) == [i \in 1..Len(y) |-> IF y[i] = y[1] THEN 0 ELSE 1]

ClassCount(y, k) == Cardinality({i \in 1..Len(y) : Encoded(y)[i] = k})

\* "n_splits cannot be greater than the number of members in each class".
KFoldRaises(y) ==
  \A k \in {0, 1} : ClassCount(y, k) = 0 \/ n_splits > ClassCount(y, k)

\* allocation[f][k]: how many members of class k fold f (0-based) gets;
\* y_order is y sorted, dealt round-robin.
Allocation(y, f, k) ==
  Cardinality({j \in 0..(Len(y) - 1) :
     /\ j % n_splits = f
     /\ IF k = 0 THEN j < ClassCount(y, 0) ELSE j >= ClassCount(y, 0)})

\* np.arange(n_splits).repeat(allocation[:, k]): element m (1-based).
FoldsForClass(y, k) ==
  [m \in 1..ClassCount(y, k) |->
     CHOOSE f \in 0..(n_splits - 1) :
        LET before == SumSeq([g \in 1..f |-> Allocation(y, g - 1, k)])
        IN before < m /\ m <= before + Allocation(y, f, k)]

\* test_folds: the fold (0-based) each position is held out in.  Each class's
\* fold list is shuffled by the generator's next draw.
TestFolds(y, seed) ==
  LET enc == Encoded(y)
      ffc0 == FoldsForClass(y, 0)
      ffc1 == FoldsForClass(y, 1)
      perm0 == SeededPermutation(seed, ClassCount(y, 0), 0)
      perm1 == SeededPermutation(seed, ClassCount(y, 1), 1)
  IN [i \in 1..Len(y) |->
       LET r == Cardinality({j \in 1..i : enc[j] = enc[i]})
       IN IF enc[i] = 0 THEN ffc0[perm0[r]] ELSE ffc1[perm1[r]]]

\* As KFoldSplit, but with the first position held out in every fold.
KFoldSplitOverlapping(y, seed) ==
  LET tf == TestFolds(y, seed)
  IN [f \in 1..n_splits |->
       [ val_index   |-> SetToSeq({i \in 1..Len(y) : tf[i] = f - 1 \/ i = 1}),
         train_index |-> SetToSeq({i \in 1..Len(y) : tf[i] # f - 1}) ]]

\* kf.split(X, y): for each fold the (train_index, val_index) arrays.
KFoldSplit(y, seed) ==
  LET tf == TestFolds(y, seed)
  IN [f \in 1..n_splits |->
       [ val_index   |-> SetToSeq({i \in 1..Len(y) : tf[i] = f - 1}),
         train_index |-> SetToSeq({i \in 1..Len(y) : tf[i] # f - 1}) ]]

\* a[index] raises IndexError when an index is out of range.
IndexRaises(a, index) == \E i \in DOMAIN index : index[i] > Len(a)

(* ------------------------------ optuna study --------------------------- *)
\* a < b for fractions num/den.
Less(a, b) == a.num * b.den < b.num * a.den

\* optuna.create_study(direction='maximize')
create_study(n) == [n_trials |-> n, trials |-> <<>>, best |-> 0]

\* As StudyTell, but a trial that only equals the best replaces it.
StudyTellLatest(st, params, value) ==
  LET t == Len(st.trials) + 1
  IN [st EXCEPT !.trials = Append(@, [params |-> params, value |-> value]),
                !.best = IF st.best = 0 \/ ~Less(value, st.trials[st.best].value)
                         THEN t ELSE @]

\* The study records a completed trial; the storage moves best_trial only
\* when the new value is strictly greater.
StudyTell(st, params, value) ==
  LET t == Len(st.trials) + 1
  IN [st EXCEPT !.trials = Append(@, [params |-> params, value |-> value]),
                !.best = IF st.best = 0 \/ Less(st.trials[st.best].value, value)
                         THEN t ELSE @]

\* study.best_params
best_params(st) == st.trials[st.best].params

\* As TrialsRemain, but allowing one trial beyond the budget.
TrialsRemainOneMore(st) == Len(st.trials) <= st.n_trials

\* study.optimize(func, n_trials=n): another trial is run while fewer than
\* n_trials have been run.
TrialsRemain(st) == Len(st.trials) < st.n_trials

(* ------------------------------ the state ------------------------------ *)
\* self  : the IC50Predictor object.
\* disk  : the artifact at "learning_data_01.h5" (None when never saved).
\* pc    : "idle", or where optuna_optimize stands: "optimize" (between
\*         trials), "objective" (inside the fold loop of objective).
\* study : the optuna study of the running optuna_optimize call.
\* cv    : the locals of the running (or last returned) objective call.
\* fit   : the most recent fit call: what it was handed.
\* last  : the most recent call that ended: its outcome.
\* load  : the frame of a load_data_dat / load_data_net call.
VARIABLES self, disk, pc, study, cv, fit, last, load

vars == <<self, disk, pc, study, cv, fit, last, load>>

NoValue == [num |-> 0, den |-> 0]
NoStats == [n |-> 0, sum |-> 0, sq |-> 0]
NoStudy == create_study(0)
NoCV == [ params |-> <<>>, trace |-> <<>>, folds |-> <<>>, k |-> 0,
          model |-> None, scores_dat |-> <<>>, scores_net |-> <<>>,
          heldout |-> {}, prior |-> {}, value |-> NoValue ]
NoFit == [ kind |-> "none", x |-> {}, val |-> {}, xrows |-> 0, yrows |-> 0,
           val_xrows |-> 0, val_yrows |-> 0, epochs |-> 0, callbacks |-> {} ]
NoLoad == [ target |-> "none", at |-> "none", df |-> <<>>, i |-> 0,
            data |-> <<>>, labels |-> <<>> ]

\* The record of a call that ended.  absent: self.model was None when it
\* began; unchanged: it left self as it was; stats: the scaler statistics it
\* applied to caller input; testread: the test-split rows it read.
Ended(op, outcome, before, after, result, stats, testread) ==
  [ op |-> op, outcome |-> outcome, absent |-> (before.model = None),
    unchanged |-> (before = after), result |-> result, stats |-> stats,
    testread |-> testread ]

\* A call that has begun and not ended.
Running(op) ==
  [ op |-> op, outcome |-> "running", absent |-> FALSE, unchanged |-> TRUE,
    result |-> <<>>, stats |-> NoStats, testread |-> {} ]

TrainIds(me) == Ids("dat", me.train_idx_dat) \cup Ids("net", me.train_idx_net)
TestIds(me)  == Ids("dat", me.test_idx_dat) \cup Ids("net", me.test_idx_net)

Init ==
  \E dd \in DatasetsDat, dn \in DatasetsNet :
    \E pd \in ShufflePermutations(random_state, Len(dd.data)),
       pn \in ShufflePermutations(random_state, Len(dn.data)) :
      /\ self = NewPredictor(dd, dn, pd, pn)
      /\ disk = None
      /\ pc = "idle"
      /\ study = NoStudy
      /\ cv = NoCV
      /\ fit = NoFit
      /\ last = Ended("__init__", "ok", [model |-> None], [model |-> None],
                      <<>>, NoStats, {})
      /\ load = NoLoad

(* ------------------------------ optuna_optimize ------------------------ *)
\* optuna_optimize(n_trials): create the study and enter study.optimize.
OptunaOptimize(n) ==
  /\ pc = "idle"
  /\ UNCHANGED load
  /\ pc' = "optimize"
  /\ study' = create_study(n)
  /\ cv' = NoCV
  /\ fit' = NoFit
  /\ last' = Running("optuna_optimize")
  /\ UNCHANGED <<self, disk>>

\* An exception leaves objective, study.optimize (catch=()) and
\* optuna_optimize: the call ends with it and returns nothing.
OptunaRaises(outcome) ==
  /\ pc' = "idle"
  /\ study' = NoStudy
  /\ last' = Ended("optuna_optimize", outcome, self, self, <<>>, NoStats, {})
  /\ UNCHANGED <<self, disk>>

\* objective(trial), up to the first iteration of the fold loop: suggest the
\* parameters, create the model (once), split the training positions.
ObjectiveBegin ==
  /\ pc = "optimize"
  /\ UNCHANGED load
  /\ TrialsRemain(study)
  /\ IF KFoldRaises(self.train_labels_dat)
     THEN /\ OptunaRaises("ValueError")
          /\ cv' = NoCV
          /\ UNCHANGED fit
     ELSE LET folds == KFoldSplit(self.train_labels_dat, random_state)
          IN \E params \in TrialConfigs, trace \in FitTraces :
               /\ pc' = "objective"
               /\ cv' = [NoCV EXCEPT
                    !.params = params,
                    !.trace = trace,
                    !.model = create_model(params),
                    !.folds = folds]
               /\ UNCHANGED <<self, disk, study, fit, last>>

\* As FoldFit, but validating on the test split.
FoldFitValidatingOnTest(me, fold) ==
  [ kind  |-> "cv",
    x     |-> Ids("dat", Take(me.train_idx_dat, fold.train_index))
                \cup Ids("net", Take(me.train_idx_net, fold.train_index)),
    val   |-> TestIds(me),
    xrows |-> Len(fold.train_index) + Len(fold.train_index),
    yrows |-> Len(fold.train_index),
    val_xrows |-> Len(me.test_idx_dat) + Len(me.test_idx_net),
    val_yrows |-> Len(me.test_idx_dat),
    epochs |-> epochs, callbacks |-> {} ]

\* What the fold loop hands to model.fit in fold f: x the rows of the
\* feature matrix (both targets' fit slices, concatenated row-wise: xrows
\* rows) with the column-stacked labels (yrows rows); val the rows of
\* validation_data, built the same way (val_xrows, val_yrows).
FoldFit(me, fold) ==
  [ kind  |-> "cv",
    x     |-> Ids("dat", Take(me.train_idx_dat, fold.train_index))
                \cup Ids("net", Take(me.train_idx_net, fold.train_index)),
    val   |-> Ids("dat", Take(me.train_idx_dat, fold.val_index))
                \cup Ids("net", Take(me.train_idx_net, fold.val_index)),
    xrows |-> Len(fold.train_index) + Len(fold.train_index),
    yrows |-> Len(fold.train_index),
    val_xrows |-> Len(fold.val_index) + Len(fold.val_index),
    val_yrows |-> Len(fold.val_index),
    epochs |-> epochs, callbacks |-> {} ]

\* The scoring of one fold by the network with prediction function p:
\* predict on each target's held-out slice, take column 0 for Target-A and
\* column 1 for Target-B, threshold, precision against the held-out labels.
ScoreFold(me, fold, p) ==
  LET x_val_dat == Take(me.train_data_scaled_dat, fold.val_index)
      x_val_net == Take(me.train_data_scaled_net, fold.val_index)
      y_val_dat == Take(me.train_labels_dat, fold.val_index)
      y_val_net == Take(me.train_labels_net, fold.val_index)
      y_pred_dat == [i \in 1..Len(x_val_dat) |-> PredictProb(p, x_val_dat[i], 0)]
      y_pred_net == [i \in 1..Len(x_val_net) |-> PredictProb(p, x_val_net[i], 1)]
  IN [ score_dat |-> precision_score(y_val_dat, Classes(y_pred_dat)),
       score_net |-> precision_score(y_val_net, Classes(y_pred_net)) ]

\* One iteration of the fold loop: slice both targets by the fold's index
\* arrays, fit the model of the frame (the one created before the loop) on
\* the remaining folds, score it on the held-out fold.
FoldStep ==
  /\ pc = "objective"
  /\ UNCHANGED load
  /\ cv.k < n_splits
  /\ LET fold == cv.folds[cv.k + 1]
     IN IF \/ IndexRaises(self.train_data_scaled_net, fold.train_index)
           \/ IndexRaises(self.train_data_scaled_net, fold.val_index)
        THEN /\ OptunaRaises("IndexError")
             /\ UNCHANGED <<cv, fit>>
        ELSE /\ fit' = FoldFit(self, fold)
             /\ \E returns \in BOOLEAN :
                  IF ~returns
                  THEN /\ OptunaRaises("FitError")
                       /\ UNCHANGED cv
                  ELSE LET p == cv.trace[cv.k + 1]
                           s == ScoreFold(self, fold, p)
                       IN /\ cv' = [cv EXCEPT
                                !.k = @ + 1,
                                !.prior = cv.model.seen,
                                !.model = [@ EXCEPT !.fitted = TRUE,
                                              !.seen = @ \cup fit'.x,
                                              !.predictor = p],
                                !.heldout = fit'.val,
                                !.scores_dat = Append(@, s.score_dat),
                                !.scores_net = Append(@, s.score_net)]
                          /\ UNCHANGED <<self, disk, pc, study, last>>

\* objective returns np.mean(scores_dat + scores_net); the study records the
\* trial.
ObjectiveReturn ==
  /\ pc = "objective"
  /\ UNCHANGED load
  /\ cv.k = n_splits
  /\ LET value == MeanScore(cv.scores_dat, cv.scores_net)
     IN /\ cv' = [cv EXCEPT !.value = value]
        /\ study' = StudyTell(study, cv.params, value)
  /\ pc' = "optimize"
  /\ UNCHANGED <<self, disk, fit, last>>

\* study.optimize has run n_trials trials: return study.best_params.
OptunaReturn ==
  /\ pc = "optimize"
  /\ UNCHANGED load
  /\ ~TrialsRemain(study)
  /\ pc' = "idle"
  /\ last' = Ended("optuna_optimize", "ok", self, self,
                   [best_params |-> best_params(study), study |-> study],
                   NoStats, {})
  /\ study' = NoStudy
  /\ cv' = NoCV
  /\ UNCHANGED <<self, disk, fit>>

(* ------------------------------ grid search ---------------------------- *)
\* param_grid (dropout in tenths).
GridUnits == <<32, 64, 128, 256, 512, 1024>>
GridDropout == <<1, 2, 3, 4, 5>>

GridSize == Len(GridDropout) * Len(GridUnits) * Len(GridUnits)

\* ParameterGrid orders the keys by name (dropout, units1, units2) and
\* varies the last fastest: candidate c of 1..GridSize.
GridCandidate(c) ==
  LET u == Len(GridUnits)
  IN [ units1  |-> GridUnits[(((c - 1) % (u * u)) \div u) + 1],
       units2  |-> GridUnits[((c - 1) % u) + 1],
       dropout |-> GridDropout[((c - 1) \div (u * u)) + 1] ]

\* The mean test scores GridSearchCV may compute are not decided by this
\* code; these are the score tables the model draws from.
GridScorePatterns == {"flat", "units1", "dropout"}

GridScore(pattern, c) ==
  LET cand == GridCandidate(c)
  IN CASE pattern = "flat"   -> 0
       [] pattern = "units1" -> IF cand.units1 >= 256 THEN 2 ELSE 1
       [] OTHER              -> IF cand.dropout = 3 THEN 1 ELSE 0

\* The candidates of rank 1: those with the highest mean test score.
GridWinners(pattern) ==
  LET scores == {GridScore(pattern, c) : c \in 1..GridSize}
      top == CHOOSE v \in scores : \A w \in scores : w <= v
  IN {c \in 1..GridSize : GridScore(pattern, c) = top}

\* best_index_ = argmin of the ranks: the first candidate of rank 1.
GridBestIndex(pattern) ==
  LET winners == GridWinners(pattern)
  IN CHOOSE c \in winners : \A d \in winners : c <= d

\* np.column_stack((train_labels_dat, train_labels_net)) raises ValueError
\* when the two label vectors differ in length.
ColumnStackRaises(me) == Len(me.train_labels_dat) # Len(me.train_labels_net)

\* A fit on np.concatenate((train_data_scaled_dat, train_data_scaled_net))
\* and np.column_stack((train_labels_dat, train_labels_net)).  No epochs
\* argument and no callback is passed (epochs 0 here).
WholeTrainFit(me, kind) ==
  [ kind  |-> kind,
    x     |-> TrainIds(me),
    val   |-> {},
    xrows |-> Len(me.train_data_scaled_dat) + Len(me.train_data_scaled_net),
    yrows |-> Len(me.train_labels_dat),
    val_xrows |-> 0, val_yrows |-> 0,
    epochs |-> 0, callbacks |-> {} ]

\* The cross-validation objective runs (l.52-74): the splitter, what it is
\* keyed on, how many rows it divides into folds, and the scoring.
ObjectiveCV(me) ==
  [ n_splits |-> n_splits, seed |-> random_state,
    key      |-> "train_labels_dat",
    rows     |-> Len(me.train_data_scaled_dat),
    scoring  |-> "np.mean(scores_dat + scores_net)" ]

\* The cross-validation GridSearchCV is configured with (l.94) and what its
\* fit is handed (l.95-96): the splitter divides the rows of the concatenated
\* matrix, keyed on the stacked label matrix; scoring='precision'.
GridCV(me) ==
  [ n_splits |-> n_splits, seed |-> random_state,
    key      |-> "np.column_stack((train_labels_dat, train_labels_net))",
    rows     |-> Len(me.train_data_scaled_dat) + Len(me.train_data_scaled_net),
    scoring  |-> "precision" ]

\* grid_search_optimize(): GridSearchCV over param_grid, fitted on the whole
\* training split of both targets; returns best_params_.
GridSearchOptimize ==
  /\ pc = "idle"
  /\ UNCHANGED load
  /\ IF ColumnStackRaises(self)
     THEN /\ fit' = NoFit
          /\ last' = Ended("grid_search_optimize", "ValueError", self, self,
                           <<>>, NoStats, {})
     ELSE /\ fit' = WholeTrainFit(self, "grid")
          /\ \E returns \in BOOLEAN :
               IF ~returns
               THEN last' = Ended("grid_search_optimize", "FitError", self, self,
                                  <<>>, NoStats, {})
               ELSE \E pattern \in GridScorePatterns :
                      last' = Ended("grid_search_optimize", "ok", self, self,
                                    [ best_params |-> GridCandidate(GridBestIndex(pattern)),
                                      scores |-> pattern,
                                      cv |-> GridCV(self) ],
                                    NoStats, {})
  /\ UNCHANGED <<self, disk, pc, study, cv>>

(* ---------------------------- train_and_evaluate ----------------------- *)
\* The configuration a caller trains with: create_model's defaults.
TrainConfigs == { [units1 |-> 128, units2 |-> 64, dropout |-> 2] }

\* The prediction functions the final network may end up with.
FinalPredictors == {"high", "sign"}

\* The concatenated training rows in order: Target-A's, then Target-B's.
ConcatTrainIds(me) ==
  [i \in 1..Len(me.train_idx_dat) |-> <<"dat", me.train_idx_dat[i]>>]
    \o [i \in 1..Len(me.train_idx_net) |-> <<"net", me.train_idx_net[i]>>]

\* model.fit(X, Y, validation_split=0.1): the last tenth of the rows is
\* carved out for validation, split_at = int(rows * 0.9).
FinalFit(me) ==
  LET rows == ConcatTrainIds(me)
      split_at == (Len(rows) * 9) \div 10
  IN [ kind  |-> "final",
       x     |-> {rows[i] : i \in 1..split_at},
       val   |-> {rows[i] : i \in (split_at + 1)..Len(rows)},
       xrows |-> Len(rows),
       yrows |-> Len(me.train_labels_dat),
       val_xrows |-> 0, val_yrows |-> 0,
       epochs |-> epochs, callbacks |-> {} ]

\* auc(*roc_curve(y_true, y_score)): the area under the ROC curve is the
\* share of (positive, negative) pairs the score orders rightly, ties counted
\* half; kept as the fraction num / den.  With one class only in y_true
\* roc_curve warns and returns NaN rates, and auc returns NaN: the fraction
\* is 0 / 0.
RocAuc(y_true, y_score) ==
  LET pos == {i \in 1..Len(y_true) : y_true[i] = 1}
      neg == {i \in 1..Len(y_true) : y_true[i] # 1}
      gt == Cardinality({q \in pos \X neg : y_score[q[1]] > y_score[q[2]]})
      eq == Cardinality({q \in pos \X neg : y_score[q[1]] = y_score[q[2]]})
  IN [num |-> 2 * gt + eq, den |-> 2 * Cardinality(pos) * Cardinality(neg)]

\* np.isnan of a fraction.
IsNaN(v) == v.den = 0

\* The evaluation of the network with prediction function p on the test
\* split: per target the AUC and the precision of the thresholded column.
Evaluate(me, p) ==
  LET y_pred_prob_dat == [i \in 1..Len(me.test_data_scaled_dat) |->
                            PredictProb(p, me.test_data_scaled_dat[i], 0)]
      y_pred_prob_net == [i \in 1..Len(me.test_data_scaled_net) |->
                            PredictProb(p, me.test_data_scaled_net[i], 1)]
  IN [ roc_auc_dat   |-> RocAuc(me.test_labels_dat, y_pred_prob_dat),
       roc_auc_net   |-> RocAuc(me.test_labels_net, y_pred_prob_net),
       precision_dat |-> precision_score(me.test_labels_dat, Classes(y_pred_prob_dat)),
       precision_net |-> precision_score(me.test_labels_net, Classes(y_pred_prob_net)) ]

\* train_and_evaluate(best_params): self.model is replaced by a new network
\* before anything can fail; after the fit the network is evaluated on the
\* test split and saved.
TrainAndEvaluate(params) ==
  /\ pc = "idle"
  /\ UNCHANGED load
  /\ LET created == [self EXCEPT !.model = create_model(params)]
     IN IF ColumnStackRaises(self)
        THEN /\ self' = created
             /\ fit' = NoFit
             /\ last' = Ended("train_and_evaluate", "ValueError", self, created,
                              <<>>, NoStats, {})
             /\ UNCHANGED disk
        ELSE /\ fit' = FinalFit(self)
             /\ \E returns \in BOOLEAN :
                  IF ~returns
                  THEN /\ self' = created
                       /\ last' = Ended("train_and_evaluate", "FitError", self,
                                        created, <<>>, NoStats, {})
                       /\ UNCHANGED disk
                  ELSE \E p \in FinalPredictors :
                         LET trained == [created EXCEPT
                                           !.model.fitted = TRUE,
                                           !.model.seen = fit'.x,
                                           !.model.predictor = p]
                         IN /\ self' = trained
                            /\ disk' = trained.model
                            /\ last' = Ended("train_and_evaluate", "ok", self,
                                             trained, Evaluate(self, p), NoStats,
                                             TestIds(self))
  /\ UNCHANGED <<pc, study, cv>>

(* --------------------------- prediction calls -------------------------- *)
\* raise ValueError("Model is not trained. Please train the model first.")
UntrainedModelError == "ValueError: Model is not trained"

\* Raw feature matrices a caller may pass for inference.
ExternalInputs == { <<0>>, <<1, 4>> }

\* predict(input_data): guarded by "if self.model is None".
Predict(input_data) ==
  /\ pc = "idle"
  /\ UNCHANGED load
  /\ IF self.model = None
     THEN last' = Ended("predict", UntrainedModelError, self, self, <<>>,
                        NoStats, {})
     ELSE last' = Ended("predict", "ok", self, self,
                        ScalerTransform(self.scaler, input_data),
                        Stats(self.scaler), {})
  /\ fit' = NoFit
  /\ UNCHANGED <<self, disk, pc, study, cv>>

\* evaluate_on_external_data(external_data, ...): no guard; the scaler is
\* applied, then self.model.predict is called.
EvaluateOnExternalData(external_data) ==
  /\ pc = "idle"
  /\ UNCHANGED load
  /\ IF self.model = None
     THEN last' = Ended("evaluate_on_external_data", "AttributeError", self,
                        self, <<>>, Stats(self.scaler), {})
     ELSE last' = Ended("evaluate_on_external_data", "ok", self, self,
                        ScalerTransform(self.scaler, external_data),
                        Stats(self.scaler), {})
  /\ fit' = NoFit
  /\ UNCHANGED <<self, disk, pc, study, cv>>

\* compare_models(): fit the random forest on the training split with the
\* two-column label matrix.  A forest fitted on two outputs returns from
\* predict_proba a list with one array per output, so the indexing
\* predict_proba(self.test_data_scaled_dat)[:, 1] that follows raises
\* TypeError; the comparison with self.model is not reached.
CompareModels ==
  /\ pc = "idle"
  /\ UNCHANGED load
  /\ IF ColumnStackRaises(self)
     THEN /\ fit' = NoFit
          /\ last' = Ended("compare_models", "ValueError", self, self, <<>>,
                           NoStats, {})
     ELSE /\ fit' = WholeTrainFit(self, "baseline")
          /\ \E returns \in BOOLEAN :
               IF ~returns
               THEN last' = Ended("compare_models", "FitError", self, self,
                                  <<>>, NoStats, {})
               ELSE last' = Ended("compare_models", "TypeError", self, self,
                                  <<>>, NoStats, Ids("dat", self.test_idx_dat))
  /\ UNCHANGED <<self, disk, pc, study, cv>>

\* interpret_model(sample_data): shap.DeepExplainer(self.model, ...) is a
\* library call; handed None it raises an error of the library's.
InterpretModel ==
  /\ pc = "idle"
  /\ UNCHANGED load
  /\ \E returns \in BOOLEAN :
       IF self.model = None \/ ~returns
       THEN last' = Ended("interpret_model", "LibraryError", self, self, <<>>,
                          NoStats, {})
       ELSE last' = Ended("interpret_model", "ok", self, self, <<>>, NoStats, {})
  /\ fit' = NoFit
  /\ UNCHANGED <<self, disk, pc, study, cv>>

\* load_model(model_path): self.model = load_model(model_path).
LoadModel ==
  /\ pc = "idle"
  /\ UNCHANGED load
  /\ IF disk = None
     THEN /\ last' = Ended("load_model", "OSError", self, self, <<>>, NoStats, {})
          /\ UNCHANGED self
     ELSE /\ self' = [self EXCEPT !.model = disk]
          /\ last' = Ended("load_model", "ok", self, self', <<>>, NoStats, {})
  /\ fit' = NoFit
  /\ UNCHANGED <<disk, pc, study, cv>>

Next ==
  \/ \E n \in 1..MaxTrials : OptunaOptimize(n)
  \/ ObjectiveBegin
  \/ FoldStep
  \/ ObjectiveReturn
  \/ OptunaReturn
  \/ GridSearchOptimize
  \/ \E params \in TrainConfigs : TrainAndEvaluate(params)
  \/ \E input_data \in ExternalInputs : Predict(input_data)
  \/ \E external_data \in ExternalInputs : EvaluateOnExternalData(external_data)
  \/ CompareModels
  \/ InterpretModel
  \/ LoadModel

Spec == Init /\ [][Next]_vars

\* ObjectiveBegin as pc shows it: study.optimize, with trials remaining,
\* calls objective, which enters its fold loop or raises.
TrialStarts ==
  /\ pc = "optimize"
  /\ TrialsRemain(study)
  /\ pc' \in {"objective", "idle"}

\* The program is single-threaded and synchronous: a call that has begun
\* goes on to its next step.  (Fairness of ObjectiveBegin is stated on
\* TrialStarts: the ObjectiveBegin steps are exactly the TrialStarts steps
\* of Next, and both are enabled exactly when pc = "optimize" with trials
\* remaining.)
FairSpec ==
  /\ Spec
  /\ WF_pc(TrialStarts)
  /\ WF_vars(FoldStep)
  /\ WF_vars(ObjectiveReturn)
  /\ WF_vars(OptunaReturn)

(* ------------------------------ the loaders ---------------------------- *)
\* An optional value (a cell that may be NaN, a result that may be None) is
\* a sequence of length 0 or 1.
\* Structure strings the data source may hold; "xx" is one RDKit cannot
\* parse.
Smiles == {"C", "CC", "xx"}

\* Chem.MolFromSmiles(smiles): None for a string that does not parse.
MolFromSmiles(smiles) == IF smiles = "xx" THEN <<>> ELSE <<smiles>>

\* compute_descriptors(smiles): None when the molecule is None, else the
\* descriptor vector of the molecule.
compute_descriptors(smiles) ==
  LET mol == MolFromSmiles(smiles)
  IN IF mol = <<>> THEN <<>>
     ELSE <<IF mol[1] = "C" THEN <<16, 0>> ELSE <<30, 0>>>>

\* The activity rows the service returns: row i carries the structure
\* string f[i][1] and, when f[i][2], the standard value i (else NaN).
SourceFrame(f) ==
  [i \in 1..Len(f) |->
     [ canonical_smiles |-> f[i][1],
       standard_value   |-> IF f[i][2] THEN <<i>> ELSE <<>> ]]

SourceFrames ==
  UNION { {SourceFrame(f) : f \in [1..n -> Smiles \X BOOLEAN]} :
          n \in 0..MaxSourceRows }

\* The ChEMBL targets: load_data_dat queries CHEMBL238, load_data_net
\* CHEMBL228.
TargetIds == {"CHEMBL238", "CHEMBL228"}

\* df[df.standard_value.notna()]
NotNa(df) ==
  LET keep == SetToSeq({i \in 1..Len(df) : df[i].standard_value # <<>>})
  IN [k \in 1..Len(keep) |-> df[keep[k]]]

\* As AppendKept, but with the label appended outside the test.
AppendLabelAlways(frame, row) ==
  LET descriptors == compute_descriptors(row.canonical_smiles)
  IN [frame EXCEPT
        !.data = IF descriptors # <<>> THEN Append(@, descriptors[1]) ELSE @,
        !.labels = Append(@, row.standard_value[1])]

\* The body of the loop over df.iterrows(): the descriptors and the row's
\* standard_value are appended together, and only when the descriptors are
\* not None.
AppendKept(frame, row) ==
  LET descriptors == compute_descriptors(row.canonical_smiles)
  IN IF descriptors # <<>>
     THEN [frame EXCEPT !.data = Append(@, descriptors[1]),
                        !.labels = Append(@, row.standard_value[1])]
     ELSE frame

\* Before a loader is called: no predictor exists yet.
LoadInit ==
  /\ self = [model |-> None]
  /\ disk = None
  /\ pc = "load"
  /\ study = NoStudy
  /\ cv = NoCV
  /\ fit = NoFit
  /\ last = Running("load_data")
  /\ \E target \in TargetIds, res \in SourceFrames :
       load = [NoLoad EXCEPT !.target = target, !.at = "query", !.df = res]

\* The query and the filter: df = df[df.standard_value.notna()]; data = [];
\* labels = [].
LoadDataFilter ==
  /\ load.at = "query"
  /\ load' = [load EXCEPT !.at = "loop", !.df = NotNa(load.df), !.i = 0]
  /\ UNCHANGED <<self, disk, pc, study, cv, fit, last>>

\* One iteration of "for _, row in df.iterrows()".
LoadDataRow ==
  /\ load.at = "loop"
  /\ load.i < Len(load.df)
  /\ load' = [AppendKept(load, load.df[load.i + 1]) EXCEPT !.i = load.i + 1]
  /\ UNCHANGED <<self, disk, pc, study, cv, fit, last>>

\* return np.array(data), np.array(labels)
LoadDataReturn ==
  /\ load.at = "loop"
  /\ load.i = Len(load.df)
  /\ load' = [load EXCEPT !.at = "returned"]
  /\ last' = Ended("load_data", "ok", self, self,
                   [data |-> load.data, labels |-> load.labels], NoStats, {})
  /\ UNCHANGED <<self, disk, pc, study, cv, fit>>

LoadNext == LoadDataFilter \/ LoadDataRow \/ LoadDataReturn

LoadSpec == LoadInit /\ [][LoadNext]_vars

(* ======================================================================= *)
(*                               The claims                                *)
(* ======================================================================= *)

\* The operations that request prediction or evaluation.
PredictionOps ==
  {"predict", "evaluate_on_external_data", "compare_models", "interpret_model"}

\* C1 (as claimed): whenever a prediction or evaluation operation is called
\* while self.model is None, it ends in the untrained-model error and leaves
\* the predictor unchanged.
C1_UntrainedCallsRaiseTyped ==
  (last.op \in PredictionOps /\ last.absent)
     => (last.outcome = UntrainedModelError /\ last.unchanged)

\* C2 (as claimed): when a fold has just been scored, the model that scored
\* it had never been fitted before this fold (it is fresh) and no held-out
\* row of the fold has ever been in its training input.
C2_FoldModelFreshAndUnleaked ==
  (pc = "objective" /\ cv.k >= 1)
     => (cv.prior = {} /\ cv.heldout \cap cv.model.seen = {})

\* Statistics computed directly from a matrix: n, sum, sum of squares.
FittedOn(X) ==
  [ n |-> Len(X), sum |-> SumSeq(X),
    sq |-> SumSeq([i \in 1..Len(X) |-> X[i] * X[i]]) ]

\* Standardisation of X with given statistics.
Standardized(st, X) ==
  [i \in 1..Len(X) |-> [ num |-> st.n * X[i] - st.sum,
                         den2 |-> st.n * st.sq - st.sum * st.sum,
                         n |-> st.n ]]

InferenceOps == {"predict", "evaluate_on_external_data"}

\* C3 (as claimed): at every inference that goes through, the statistics
\* applied to the caller's input are, for each target, the statistics that
\* were fitted on that target's training split (the ones that scaled the
\* rows the model was fitted on).
C3_InferenceUsesTrainingStatistics ==
  (last.op \in InferenceOps /\ last.outcome = "ok")
     => /\ last.stats = FittedOn(self.train_data_dat)
        /\ last.stats = FittedOn(self.train_data_net)

\* C4: each target's scaled train and test matrices are the standardisation
\* with the statistics of that target's own training split, and the rows the
\* scaler's statistics rest on are training rows of one target only, never a
\* test row.
C4_ScalerPerTargetTrainOnly ==
  /\ self.train_data_scaled_dat
       = Standardized(FittedOn(self.train_data_dat), self.train_data_dat)
  /\ self.test_data_scaled_dat
       = Standardized(FittedOn(self.train_data_dat), self.test_data_dat)
  /\ self.train_data_scaled_net
       = Standardized(FittedOn(self.train_data_net), self.train_data_net)
  /\ self.test_data_scaled_net
       = Standardized(FittedOn(self.train_data_net), self.test_data_net)
  /\ self.scaler.rows \cap TestIds(self) = {}
  /\ \/ self.scaler.rows \subseteq Ids("dat", self.train_idx_dat)
     \/ self.scaler.rows \subseteq Ids("net", self.train_idx_net)

\* C4's case: the two targets' training statistics differ and both test
\* splits have been scaled.
C4_Witness ==
  /\ FittedOn(self.train_data_dat) # FittedOn(self.train_data_net)
  /\ Len(self.train_data_dat) # Len(self.train_data_net)
  /\ Len(self.test_data_scaled_dat) > 0
  /\ Len(self.test_data_scaled_net) > 0

C6_PartitionDeterministicDisjointCover ==
  /\ \A t \in {"dat", "net"} :
       LET n == IF t = "dat" THEN Len(self.data_dat) ELSE Len(self.data_net)
           tr == IF t = "dat" THEN self.train_idx_dat ELSE self.train_idx_net
           te == IF t = "dat" THEN self.test_idx_dat ELSE self.test_idx_net
       IN /\ Range(tr) \cap Range(te) = {}
          /\ Range(tr) \cup Range(te) = 1..n
          /\ Cardinality(Range(tr)) = Len(tr)
          /\ Cardinality(Range(te)) = Len(te)
          /\ TestDiv * Len(te) >= n
          /\ TestDiv * (Len(te) - 1) < n
  /\ Len(self.data_dat) = Len(self.data_net)
       => /\ self.train_idx_dat = self.train_idx_net
          /\ self.test_idx_dat = self.test_idx_net
  /\ (self.data_dat = self.data_net /\ self.labels_dat = self.labels_net)
       => /\ self.train_data_dat = self.train_data_net
          /\ self.test_data_dat = self.test_data_net
          /\ self.train_labels_dat = self.train_labels_net
          /\ self.test_labels_dat = self.test_labels_net

\* C6's case: the same dataset has been split twice (once per target), and
\* its length is no multiple of 5.
C6_Witness ==
  /\ self.data_dat = self.data_net /\ self.labels_dat = self.labels_net
  /\ Len(self.data_dat) % TestDiv # 0
  /\ self.test_idx_dat # <<>>

\* The precision the specification defines for fold f and a target: over the
\* fold's held-out rows, the target's output column thresholded at 0.5
\* against the target's own labels; 0 when nothing is predicted positive.
\* Scaled by PrecScale.
SpecPositives(f, t) ==
  LET X == IF t = "dat" THEN self.train_data_scaled_dat
                        ELSE self.train_data_scaled_net
      col == IF t = "dat" THEN 0 ELSE 1
  IN {i \in Range(cv.folds[f].val_index) :
        PredictProb(cv.trace[f], X[i], col) > Threshold}

SpecFoldPrecision(f, t) ==
  LET y == IF t = "dat" THEN self.train_labels_dat ELSE self.train_labels_net
      pos == SpecPositives(f, t)
      tp == {i \in pos : y[i] = 1}
  IN IF pos = {} THEN 0
     ELSE (Cardinality(tp) * PrecScale) \div Cardinality(pos)

\* An objective call has returned a score.
Scored == cv.value # NoValue

\* C7: the score an objective call returns equals the mean over the 5 folds
\* of (precision of Target-A + precision of Target-B) / 2.
C7_ScoreIsMeanOfFoldAverages ==
  Scored =>
    LET total == SumSeq([f \in 1..n_splits |->
                   SpecFoldPrecision(f, "dat") + SpecFoldPrecision(f, "net")])
    IN /\ cv.value.den > 0
       /\ cv.value.num * (2 * n_splits * PrecScale) = total * cv.value.den

\* C7's case: a returned score whose two targets' precisions differ, so
\* that it is strictly between 0 and 1.
C7_Witness ==
  /\ Scored
  /\ SumSeq(cv.scores_dat) # SumSeq(cv.scores_net)
  /\ 0 < cv.value.num /\ cv.value.num < cv.value.den

\* C8: for a configuration within the declared bounds, a score that is
\* returned lies in [0, 1]; so does every value the study holds.
C8_ScoreInUnitInterval ==
  /\ Scored =>
       /\ cv.params.units1 \in 32..1024 /\ cv.params.units2 \in 32..1024
       /\ cv.params.dropout \in 1..5
       /\ cv.value.den > 0
       /\ 0 <= cv.value.num /\ cv.value.num <= cv.value.den
  /\ \A i \in 1..Len(study.trials) :
       /\ study.trials[i].value.den > 0
       /\ 0 <= study.trials[i].value.num
       /\ study.trials[i].value.num <= study.trials[i].value.den

\* C8's case: a score of exactly 1 returned for the configuration at the
\* upper bounds.
C8_Witness ==
  /\ Scored
  /\ cv.params.units1 = 1024 /\ cv.params.dropout = 5
  /\ cv.value.num = cv.value.den

\* C9: in every scored fold, a target with no positive prediction gets
\* precision 0; the scorer goes on: a returned score is the mean of all
\* n_splits folds' precisions of both targets, the zeros included.
C9_ZeroPositivesScoreZero ==
  /\ \A f \in 1..cv.k :
       /\ SpecPositives(f, "dat") = {} => cv.scores_dat[f] = 0
       /\ SpecPositives(f, "net") = {} => cv.scores_net[f] = 0
  /\ Scored =>
       /\ Len(cv.scores_dat) = n_splits /\ Len(cv.scores_net) = n_splits
       /\ cv.value.num = SumSeq(cv.scores_dat) + SumSeq(cv.scores_net)
       /\ cv.value.den = 2 * n_splits * PrecScale

\* C9's case: a returned score of a call in which Target-B had no positive
\* prediction in some fold while Target-A had, and a later fold still scored
\* Target-B above 0.
C9_Witness ==
  /\ Scored
  /\ \E f \in 1..n_splits :
       /\ SpecPositives(f, "net") = {} /\ SpecPositives(f, "dat") # {}
       /\ \E g \in (f + 1)..n_splits : cv.scores_net[g] > 0

\* The first of the best-scoring trials of a trial list.
EarliestBest(trials) ==
  CHOOSE i \in 1..Len(trials) :
    /\ \A j \in 1..Len(trials) : ~Less(trials[i].value, trials[j].value)
    /\ \A j \in 1..(i - 1) : Less(trials[j].value, trials[i].value)

\* C10: the configuration a search returns is that of the earliest of the
\* trials with the maximal score: for optuna_optimize over the study's
\* trials (and the study's best trial is that one throughout the run), for
\* grid_search_optimize over the grid's candidates.
C10_BestScoreEarliestWins ==
  /\ study.trials # <<>> => study.best = EarliestBest(study.trials)
  /\ (last.op = "optuna_optimize" /\ last.outcome = "ok")
       => last.result.best_params
            = last.result.study.trials[EarliestBest(last.result.study.trials)].params
  /\ (last.op = "grid_search_optimize" /\ last.outcome = "ok")
       => \E c \in 1..GridSize :
            /\ GridCandidate(c) = last.result.best_params
            /\ \A d \in 1..GridSize :
                 /\ GridScore(last.result.scores, d) <= GridScore(last.result.scores, c)
                 /\ d < c => GridScore(last.result.scores, d)
                               < GridScore(last.result.scores, c)

\* C10's case: a sequential search has returned after two trials of equal
\* score and different configurations.
C10_Witness ==
  /\ last.op = "optuna_optimize" /\ last.outcome = "ok"
  /\ Len(last.result.study.trials) >= 2
  /\ ~Less(last.result.study.trials[1].value, last.result.study.trials[2].value)
  /\ ~Less(last.result.study.trials[2].value, last.result.study.trials[1].value)
  /\ last.result.study.trials[1].params # last.result.study.trials[2].params
  /\ last.result.best_params = last.result.study.trials[1].params

\* The typed error a search is to signal when no trial produced a score.
SearchExhaustedError == "SearchExhaustedError"

SearchOps == {"optuna_optimize", "grid_search_optimize"}

\* C11 (as claimed): a search call never ends on a trial's failure: it ends
\* either returning a result or, when no trial scored, in
\* SearchExhaustedError.
C11_TrialFailureSkipped ==
  (last.op \in SearchOps /\ last.outcome # "running")
     => last.outcome \in {"ok", SearchExhaustedError}

\* C12 (as claimed): the cross-validation a completed grid search ran is the
\* one objective runs: same number of folds, same seed, the same rows
\* divided into folds keyed on Target-A's training labels, and the same
\* scoring (the mean of the per-fold precisions of both targets).
C12_StrategiesShareFoldsAndScoring ==
  (last.op = "grid_search_optimize" /\ last.outcome = "ok")
     => last.result.cv = ObjectiveCV(self)

\* y holds one class only.
SingleClass(y) == Cardinality(Range(y)) = 1

EvaluationOps == {"train_and_evaluate", "compare_models"}

\* C13 (as claimed): an evaluation (train_and_evaluate, or compare_models on
\* a predictor that has a model) of a predictor one of whose test splits
\* holds a single class completes, reporting that target's AUC as NaN and
\* the other target's AUC and precision.
C13_SingleClassTestReportsNaN ==
  ( /\ last.op \in EvaluationOps /\ last.outcome # "running"
    /\ last.op = "compare_models" => ~last.absent
    /\ SingleClass(self.test_labels_dat) \/ SingleClass(self.test_labels_net) )
     => /\ last.outcome = "ok"
        /\ SingleClass(self.test_labels_dat) => IsNaN(last.result.roc_auc_dat)
        /\ SingleClass(self.test_labels_net) => IsNaN(last.result.roc_auc_net)
        /\ last.result.precision_dat \in 0..PrecScale
        /\ last.result.precision_net \in 0..PrecScale

RECURSIVE ParsedRows(_)
\* The rows of a frame whose structure string parses, in order.
ParsedRows(df) ==
  IF df = <<>> THEN <<>>
  ELSE (IF MolFromSmiles(Head(df).canonical_smiles) # <<>> THEN <<Head(df)>>
        ELSE <<>>) \o ParsedRows(Tail(df))

SelectedPositions(rows, t) ==
  LET idx == IF t = "dat" THEN self.train_idx_dat ELSE self.train_idx_net
  IN {i \in 1..Len(idx) : <<t, idx[i]>> \in rows}

\* C15: while objective runs, the training positions of Target-A are split
\* into n_splits = 5 folds: the held-out sets are pairwise disjoint and
\* cover every position, each fold's fit positions are the complement of
\* its held-out positions, the folds are stratified on Target-A's labels
\* (for each label value the folds' held-out counts differ by at most one),
\* and the rows a fold's fit receives of Target-B are those at the same
\* positions as the rows it receives of Target-A.
C15_FoldsPartitionStratified ==
  pc = "objective" =>
    LET n == Len(self.train_labels_dat)
        val(f) == Range(cv.folds[f].val_index)
        tr(f) == Range(cv.folds[f].train_index)
        count(f, c) == Cardinality({i \in val(f) : self.train_labels_dat[i] = c})
    IN /\ Len(cv.folds) = n_splits
       /\ \A f, g \in 1..n_splits : f # g => val(f) \cap val(g) = {}
       /\ UNION {val(f) : f \in 1..n_splits} = 1..n
       /\ \A f \in 1..n_splits :
            /\ tr(f) \cap val(f) = {}
            /\ tr(f) \cup val(f) = 1..n
            /\ Cardinality(val(f)) = Len(cv.folds[f].val_index)
            /\ Cardinality(tr(f)) = Len(cv.folds[f].train_index)
       /\ \A f, g \in 1..n_splits : \A c \in Range(self.train_labels_dat) :
            count(f, c) - count(g, c) \in {-1, 0, 1}
       /\ cv.k >= 1 =>
            /\ SelectedPositions(fit.x, "dat") = tr(cv.k)
            /\ SelectedPositions(fit.x, "net") = tr(cv.k)
            /\ SelectedPositions(fit.val, "dat") = val(cv.k)
            /\ SelectedPositions(fit.val, "net") = val(cv.k)

\* C15's case: the second fold of a call has been fitted and scored on a
\* training split that holds both label values.
C15_Witness ==
  /\ pc = "objective" /\ cv.k >= 2
  /\ Cardinality(Range(self.train_labels_dat)) = 2
  /\ fit.kind = "cv" /\ fit.val # {}

\* C16: a run of optuna_optimize never holds more trials than its budget
\* n_trials; a trial is recorded only by an objective call that returns, and
\* that call has made exactly n_splits = 5 fold fits, one per iteration;
\* every fold fit is handed the fixed budget of epochs and no callback that
\* could stop it; and every run that has begun ends.
C16_SearchTerminatesWithinBudget ==
  /\ [](Len(study.trials) <= study.n_trials)
  /\ [](/\ cv.k <= n_splits
        /\ Len(cv.scores_dat) = cv.k
        /\ fit.kind = "cv" => (fit.epochs = epochs /\ fit.callbacks = {}))
  /\ [][ /\ Len(study'.trials) > Len(study.trials)
            => /\ Len(study'.trials) = Len(study.trials) + 1
               /\ cv.k = n_splits
               /\ pc = "objective" /\ pc' = "optimize"
         /\ (pc = "objective" /\ cv'.k # cv.k)
            => (cv'.k = cv.k + 1 /\ fit'.kind = "cv") ]_vars
  /\ (pc # "idle") ~> (pc = "idle")

\* C16's case: a run with a budget of two trials has returned after both
\* trials were scored.
C16_Witness ==
  /\ last.op = "optuna_optimize" /\ last.outcome = "ok"
  /\ last.result.study.n_trials = 2
  /\ Len(last.result.study.trials) = 2

\* C17 (as claimed): the in-memory model is either absent (Untrained) or a
\* model whose final fit has completed (Trained, Persisted, Reloaded); the
\* artifact on disk is a model whose final fit has completed; and after a
\* load_model that went through, the in-memory model is the artifact.
C17_ModelFollowsLifecycle ==
  /\ self.model = None \/ self.model.fitted
  /\ disk = None \/ disk.fitted
  /\ (last.op = "load_model" /\ last.outcome = "ok") => self.model = disk

\* C18 (as claimed): in every fit call the feature matrix has as many rows
\* as the label matrix, and so has the validation data of a fold fit.
C18_FitRowCountsAgree ==
  fit.kind # "none" =>
    /\ fit.xrows = fit.yrows
    /\ fit.val_xrows = fit.val_yrows

\* C19 (as claimed): while objective runs, every index of every fold is a
\* valid position of Target-B's training split, every position of Target-B's
\* training split is in some fold, and no search call ends in IndexError.
C19_FoldIndicesFitTargetB ==
  /\ pc = "objective" =>
       LET used == UNION { Range(cv.folds[f].val_index) : f \in 1..Len(cv.folds) }
       IN /\ \A i \in used : i <= Len(self.train_labels_net)
          /\ \A i \in used : i <= Len(self.train_data_scaled_net)
          /\ 1..Len(self.train_labels_net) \subseteq used
  /\ last.op = "optuna_optimize" => last.outcome # "IndexError"

====
